---- MODULE Spec2Model ----
(***************************************************************************)
(* Model of sprites/tools/dumppng/main.go: the worker pool of main, the    *)
(* frame packer and atlas composer of processOne, and the chunk rewriter   *)
(* of processOne.                                                          *)
(*                                                                         *)
(* Three specifications share the module's variables:                      *)
(*   Spec         main's producer, job channel and errgroup workers        *)
(*   PackSpec     processOne lines 95-136 (pack, compose, crop)            *)
(*   RewriteSpec  processOne lines 138-230 (pipe, file, chunk loop, wait)  *)
(* Each keeps the variables of the other two at their idle values.         *)
(***************************************************************************)
EXTENDS Integers, Sequences, FiniteSets, TLC

VARIABLES
    \* ---- main (lines 233-285) ----
    sets,       \* s: per SpriteSet, what processOne returns for it ("ok" | "err")
    ncpu,       \* runtime.NumCPU()
    ch,         \* the buffered channel: indices of queued SpriteSets
    closed,     \* close(ch) has run
    nxt,        \* the producer's position in s (next index to send)
    mainpc,     \* "start" | "send" | "wait" | "done" | "fatal" | "readfail"
    wpc,        \* per worker: "idle" | "recv" | "run" | "returned"
    wjob,       \* per worker: the SpriteSet it took last (0: none)
    runs,       \* per SpriteSet: number of processOne invocations
    gerr,       \* errgroup.Group.err (0: nil, else the failed SpriteSet's index)
    errlog,     \* history: the failed SpriteSets in the order their errors reached the group
    \* ---- processOne, composition (lines 95-136) ----
    anims,      \* the SpriteSet: a sequence of animations, each a sequence of frames
    fi,         \* position of the nested range loops in the frames, flattened
    pk,         \* left, top, infos, fullPalette, spriteImg (Palette, opaque pixels)
    \* ---- processOne, rewriting (lines 138-230) ----
    inp,        \* what NextChunk will yield, in order; after the last item, io.EOF
    rpos,       \* number of NextChunk calls that consumed an item
    cur,        \* the chunk of the current loop iteration
    rerr,       \* err of the last NextChunk: "nil" | "eof" | "bad"
    out,        \* chunks written to the destination file by pngw
    encres,     \* what png.Encode returns in the encoder goroutine ("ok" | "err")
    epc,        \* the encoder goroutine: "start" | "stream" | "done"
    created,    \* os.Create succeeded: the destination file exists
    piped,      \* io.Pipe was opened and the encoder goroutine started
    jpc,        \* position in processOne
    jres,       \* result of processOne: "none" | "ok" | "panic" | an error
    \* ---- FindBbox on its own (lines 24-85) ----
    bimg,       \* the raster handed to FindBbox
    bres,       \* the rectangle it returned
    bpc         \* "idle" | "find" | "done"

poolVars == <<sets, ncpu, ch, closed, nxt, mainpc, wpc, wjob, runs, gerr, errlog>>
packVars == <<anims, fi, pk>>
rwVars   == <<inp, rpos, cur, rerr, out, encres, epc, created, piped, jpc, jres>>
bbVars   == <<bimg, bres, bpc>>
vars     == <<poolVars, packVars, rwVars, bbVars>>

\* ---------------------------------------------------------------- bounds
MaxCPU    == 2   \* largest runtime.NumCPU() explored
MaxSets   == 4   \* largest number of SpriteSets read from the source
MaxFrames == 3   \* largest number of frames of one SpriteSet
MaxChunks == 3   \* longest chunk stream handed to the rewriter
MaxSide   == 2   \* largest width and height of a raster handed to FindBbox alone


\* ------------------------------------------------- idle values of the parts
PoolIdle ==
    /\ sets = <<>> /\ ncpu = 1 /\ ch = <<>> /\ closed = FALSE /\ nxt = 1
    /\ mainpc = "idle" /\ wpc = <<>> /\ wjob = <<>> /\ runs = <<>>
    /\ gerr = 0 /\ errlog = <<>>

PackIdle ==
    /\ anims = <<>> /\ fi = 1 /\ pk = <<>>

RwIdle ==
    /\ inp = <<>> /\ rpos = 0 /\ cur = <<>> /\ rerr = "nil" /\ out = <<>>
    /\ encres = "ok" /\ epc = "idle"

JobIdle ==
    /\ created = FALSE /\ piped = FALSE /\ jpc = "idle" /\ jres = "none"

BbIdle ==
    /\ bimg = <<>> /\ bres = <<>> /\ bpc = "idle"

\* =========================================================================
\* main: producer, channel, errgroup workers (lines 233-285)
\* =========================================================================

\* All sequences over S of length 0..n.
SeqsUpTo(S, n) == UNION {[1..k -> S] : k \in 0..n}

Workers == 1..ncpu

\* errgroup.Group.Go's errOnce.Do: only the first non-nil error is kept.
GroupRecord(held, j) == IF held = 0 THEN j ELSE held

\* errgroup's WaitGroup counter: workers started with g.Go that have not returned.
WaitGroupCount == Cardinality({w \in Workers : wpc[w] \in {"recv", "run"}})

PoolInit ==
    /\ sets \in SeqsUpTo({"ok", "err"}, MaxSets)
    /\ ncpu \in 1..MaxCPU
    /\ ch = <<>> /\ closed = FALSE /\ nxt = 1
    /\ mainpc = "start"
    /\ wpc = [w \in 1..ncpu |-> "idle"]
    /\ wjob = [w \in 1..ncpu |-> 0]
    /\ runs = [j \in 1..Len(sets) |-> 0]
    /\ gerr = 0 /\ errlog = <<>>
    /\ PackIdle /\ RwIdle /\ JobIdle /\ BbIdle

\* Lines 234-252: a failure to open, read, seek or parse the source is fatal.
MainReadFail ==
    /\ mainpc = "start"
    /\ mainpc' = "readfail"
    /\ UNCHANGED <<sets, ncpu, ch, closed, nxt, wpc, wjob, runs, gerr, errlog>>
    /\ UNCHANGED <<packVars, rwVars, bbVars>>

\* Lines 234-275: the source is read, the channel made, NumCPU workers started.
MainStart ==
    /\ mainpc = "start"
    /\ mainpc' = "send"
    /\ wpc' = [w \in Workers |-> "recv"]
    /\ UNCHANGED <<sets, ncpu, ch, closed, nxt, wjob, runs, gerr, errlog>>
    /\ UNCHANGED <<packVars, rwVars, bbVars>>

\* Lines 277-279: ch <- work{...}; blocks while the buffer holds NumCPU items.
MainSend ==
    /\ mainpc = "send"
    /\ nxt <= Len(sets)
    /\ Len(ch) < ncpu
    /\ ch' = Append(ch, nxt)
    /\ nxt' = nxt + 1
    /\ UNCHANGED <<sets, ncpu, closed, mainpc, wpc, wjob, runs, gerr, errlog>>
    /\ UNCHANGED <<packVars, rwVars, bbVars>>

\* Line 280: close(ch) once the range over s is exhausted.
MainClose ==
    /\ mainpc = "send"
    /\ nxt > Len(sets)
    /\ closed' = TRUE
    /\ mainpc' = "wait"
    /\ UNCHANGED <<sets, ncpu, ch, nxt, wpc, wjob, runs, gerr, errlog>>
    /\ UNCHANGED <<packVars, rwVars, bbVars>>

\* Lines 282-284: g.Wait() returns when every worker has returned; a held
\* error is logged (log.Fatalf) and the process exits.
MainWait ==
    /\ mainpc = "wait"
    /\ WaitGroupCount = 0
    /\ mainpc' = IF gerr # 0 THEN "fatal" ELSE "done"
    /\ UNCHANGED <<sets, ncpu, ch, closed, nxt, wpc, wjob, runs, gerr, errlog>>
    /\ UNCHANGED <<packVars, rwVars, bbVars>>

\* Lines 267-269: the range over ch yields a job; bar.Add(1); processOne is called.
WorkerRecv(w) ==
    /\ wpc[w] = "recv"
    /\ ch # <<>>
    /\ ch' = Tail(ch)
    /\ wjob' = [wjob EXCEPT ![w] = Head(ch)]
    /\ runs' = [runs EXCEPT ![Head(ch)] = @ + 1]
    /\ wpc' = [wpc EXCEPT ![w] = "run"]
    /\ UNCHANGED <<sets, ncpu, closed, nxt, mainpc, gerr, errlog>>
    /\ UNCHANGED <<packVars, rwVars, bbVars>>

\* Lines 269-271: processOne returns; on an error the worker function returns
\* it (the group keeps the first), otherwise the range loop goes on.
WorkerFinish(w) ==
    /\ wpc[w] = "run"
    /\ IF sets[wjob[w]] = "err"
       THEN /\ wpc' = [wpc EXCEPT ![w] = "returned"]
            /\ gerr' = GroupRecord(gerr, wjob[w])
            /\ errlog' = Append(errlog, wjob[w])
       ELSE /\ wpc' = [wpc EXCEPT ![w] = "recv"]
            /\ UNCHANGED <<gerr, errlog>>
    /\ UNCHANGED <<sets, ncpu, ch, closed, nxt, mainpc, wjob, runs>>
    /\ UNCHANGED <<packVars, rwVars, bbVars>>

\* Lines 267, 273: the range over ch ends when ch is closed and empty.
WorkerExit(w) ==
    /\ wpc[w] = "recv"
    /\ ch = <<>> /\ closed
    /\ wpc' = [wpc EXCEPT ![w] = "returned"]
    /\ UNCHANGED <<sets, ncpu, ch, closed, nxt, mainpc, wjob, runs, gerr, errlog>>
    /\ UNCHANGED <<packVars, rwVars, bbVars>>

Init == PoolInit

Next ==
    \/ MainReadFail
    \/ MainStart
    \/ MainSend
    \/ MainClose
    \/ MainWait
    \/ \E w \in Workers : WorkerRecv(w)
    \/ \E w \in Workers : WorkerFinish(w)
    \/ \E w \in Workers : WorkerExit(w)

Spec == Init /\ [][Next]_vars

\* ------------------------------------------------------------ claims, main

AllWorkersReturned == \A w \in Workers : wpc[w] = "returned"

MainFinished == mainpc \in {"done", "fatal"}

\* C1: when main has finished (the wait returned), every SpriteSet that was put
\* on the channel has had processOne invoked on it exactly once.
C1_EveryQueuedJobOnce ==
    MainFinished => \A j \in 1..(nxt - 1) : runs[j] = 1

\* C2: a worker whose job fails goes back to receiving from the channel; a
\* job failure never makes the worker return.
C2_FailureNeverStopsWorker ==
    [][\A w \in Workers :
          (wpc[w] = "run" /\ sets[wjob[w]] = "err" /\ wpc'[w] # "run")
              => wpc'[w] = "recv"]_vars

\* C3: the producer is never blocked on a full channel, with SpriteSets left
\* to send, when no worker is left to receive.
C3_ProducerNeverStuck ==
    ~ ( /\ mainpc = "send"
        /\ nxt <= Len(sets)
        /\ Len(ch) = ncpu
        /\ AllWorkersReturned )

\* The group holds an error exactly when some job has failed, and it is the
\* first one recorded in time; main passes the wait only after every worker
\* has returned, with "fatal" exactly when an error is held.
FirstErrorKept ==
    /\ (gerr = 0) <=> (errlog = <<>>)
    /\ gerr # 0 => gerr = Head(errlog)
    /\ mainpc = "fatal" => gerr # 0 /\ AllWorkersReturned
    /\ mainpc = "done" => errlog = <<>> /\ AllWorkersReturned

\* C4: the batch reports an error when a job has failed and none otherwise,
\* the error reported is the first recorded, and it is reported only after
\* every worker has returned: a run in which a job failed does not come to
\* rest without having reported.
C4_FirstErrorReported ==
    /\ FirstErrorKept
    /\ (errlog # <<>> /\ ~ENABLED Next) => mainpc = "fatal"

\* =========================================================================
\* processOne, composition: FindBbox, packing, drawing (lines 24-136)
\* =========================================================================
\* A raster is kept as its bounds and the set of its pixels whose alpha is
\* not zero.  The palettes of one SpriteSet are taken to agree on which
\* indices are transparent, index 0 among them (spec, section 3), so that a
\* pixel's being opaque does not depend on which palette is current.

CanvasW == 1024
CanvasH == 1024

Pt(x, y) == [x |-> x, y |-> y]
Rect(x0, y0, x1, y1) == [min |-> Pt(x0, y0), max |-> Pt(x1, y1)]
Dx(r) == r.max.x - r.min.x
Dy(r) == r.max.y - r.min.y
\* image.Rectangle.Empty, image.Point.In, image.Rectangle.Overlaps
Empty(r) == r.min.x >= r.max.x \/ r.min.y >= r.max.y
In(p, r) == r.min.x <= p.x /\ p.x < r.max.x /\ r.min.y <= p.y /\ p.y < r.max.y
Overlaps(r, q) ==
    /\ ~Empty(r) /\ ~Empty(q)
    /\ r.min.x < q.max.x /\ q.min.x < r.max.x
    /\ r.min.y < q.max.y /\ q.min.y < r.max.y

SetMin(S) == CHOOSE a \in S : \A b \in S : a <= b
SetMax(S) == CHOOSE a \in S : \A b \in S : a >= b

\* image.Paletted.At returns nil for an image without a palette, and FindBbox
\* calls RGBA() on it: a nil dereference, as soon as one pixel is looked at.
AtPanics(img) == Len(img.pal) = 0 /\ ~Empty(img.rect)

\* FindBbox without lines 65 and 78 (right++ and bottom++).
FindBboxNoIncrement(img) ==
    LET b    == img.rect
        opq  == {p \in img.ink : In(p, b)}
        xs   == {p.x : p \in opq}
        ys   == {p.y : p \in opq}
        left   == IF xs = {} THEN b.max.x ELSE SetMin(xs)
        top    == IF ys = {} THEN b.max.y ELSE SetMin(ys)
        right  == IF xs = {} THEN b.min.x - 1 ELSE SetMax(xs)
        bottom == IF ys = {} THEN b.min.y - 1 ELSE SetMax(ys)
    IN  IF right < left \/ bottom < top
        THEN Rect(0, 0, 0, 0)
        ELSE Rect(left, top, right, bottom)

\* FindBbox, lines 24-85.  left/top: the first column/row from the low edge
\* that holds an opaque pixel, the high bound if none; right/bottom: the first
\* from the high edge, one below the low bound if none, then incremented.
FindBbox(img) ==
    LET b    == img.rect
        opq  == {p \in img.ink : In(p, b)}
        xs   == {p.x : p \in opq}
        ys   == {p.y : p \in opq}
        left   == IF xs = {} THEN b.max.x ELSE SetMin(xs)
        top    == IF ys = {} THEN b.max.y ELSE SetMin(ys)
        right  == (IF xs = {} THEN b.min.x - 1 ELSE SetMax(xs)) + 1
        bottom == (IF ys = {} THEN b.min.y - 1 ELSE SetMax(ys)) + 1
    IN  IF right < left \/ bottom < top
        THEN Rect(0, 0, 0, 0)
        ELSE Rect(left, top, right, bottom)

\* Colours are <<R, G, B, A>>.
PalA == << <<0, 0, 0, 0>>, <<255, 0, 0, 255>> >>
PalB == << <<0, 0, 0, 0>>, <<0, 255, 0, 255>>, <<16, 32, 48, 128>> >>

\* The frames explored: an all-transparent one, one opaque pixel in 16x16, a
\* full 600x600, an inset 590x280, one wider than the canvas, one that fills
\* the canvas exactly, and one taller than a 2-byte signed integer can hold.
FrameClear == [rect |-> Rect(0, 0, 16, 16),   ink |-> {},
               pal |-> PalA, delay |-> 5,   action |-> 1]
FrameDot   == [rect |-> Rect(0, 0, 16, 16),   ink |-> {Pt(3, 5)},
               pal |-> PalA, delay |-> 5,   action |-> 1]
FrameBig   == [rect |-> Rect(0, 0, 600, 600), ink |-> {Pt(0, 0), Pt(599, 599)},
               pal |-> PalB, delay |-> 255, action |-> 0]
FrameInset == [rect |-> Rect(0, 0, 600, 300), ink |-> {Pt(10, 299), Pt(599, 20)},
               pal |-> PalA, delay |-> 0,   action |-> 2]
FrameWide  == [rect |-> Rect(0, 0, 1100, 8),  ink |-> {Pt(0, 0), Pt(1099, 7)},
               pal |-> PalB, delay |-> 7,   action |-> 3]
FrameFull  == [rect |-> Rect(0, 0, 1024, 1024), ink |-> {Pt(0, 0), Pt(1023, 1023)},
               pal |-> PalB, delay |-> 1,   action |-> 0]
FrameTall  == [rect |-> Rect(0, 0, 4, 40000), ink |-> {Pt(3, 0), Pt(3, 39999)},
               pal |-> PalA, delay |-> 300, action |-> 1]
FrameKinds ==
    {FrameClear, FrameDot, FrameBig, FrameInset, FrameWide, FrameFull, FrameTall}

\* sprites.Frame.MakeImage: the frame's raster with the frame's palette.
MakeImage(frame) == [rect |-> frame.rect, ink |-> frame.ink, pal |-> frame.pal]

\* The frames in the order the nested range loops visit them (lines 102-103).
RECURSIVE Flatten(_)
Flatten(as) == IF as = <<>> THEN <<>> ELSE Head(as) \o Flatten(Tail(as))

\* Lines 95-100.
PackStart ==
    [left |-> 0, top |-> 0, infos |-> <<>>, fullPalette |-> <<>>,
     spriteImg |-> [rect |-> Rect(0, 0, CanvasW, CanvasH), ink |-> {}, pal |-> <<>>]]

\* draw.Draw(dst, r, src, sp, draw.Over), line 126: the opaque pixels dst
\* gains.  r is clipped to dst's bounds; src pixel sp + (q - r.min) lands on q.
DrawOver(dst, r, src, sp) ==
    {q \in {Pt(p.x - sp.x + r.min.x, p.y - sp.y + r.min.y) :
                p \in {p \in src.ink : In(p, src.rect)}} :
        In(q, r) /\ In(q, dst.rect)}

\* Line 118: whether the frame does not fit on the current row.
Wraps(left, width) == left + width > CanvasW

\* Lines 119-121: FindBbox(spriteImg).Max.Y, then top++.
WrapTopNoIncrement(canvas) == FindBbox(canvas).max.y
WrapTop(canvas) == FindBbox(canvas).max.y + 1

\* Line 129: the cursor moves past the frame and one pixel more.
AdvanceNoGap(left, width) == left + width
Advance(left, width) == left + width + 1

\* Line 104: fullPalette is the palette of the frame at hand.
ActivePaletteFirst(held, pal) == IF held = <<>> THEN pal ELSE held
ActivePalette(held, pal) == pal

\* Line 124.
Placement(left, top, trim) == Rect(left, top, left + Dx(trim), top + Dy(trim))

\* The body of the inner loop, lines 104-129.
PackStep(st, frame) ==
    LET img    == MakeImage(frame)
        canvas == [st.spriteImg EXCEPT !.pal = img.pal]
        trim   == FindBbox(img)
        origin == Pt(Dx(img.rect) \div 2 - trim.min.x,
                     Dy(img.rect) \div 2 - trim.min.y)
        wrap   == Wraps(st.left, Dx(trim))
        left   == IF wrap THEN 0 ELSE st.left
        top    == IF wrap THEN WrapTop(canvas) ELSE st.top
        bbox   == Placement(left, top, trim)
        info   == [BBox |-> bbox, Origin |-> origin,
                   Delay |-> frame.delay, Action |-> frame.action]
    IN  [left |-> Advance(left, Dx(trim)),
         top  |-> top,
         infos |-> Append(st.infos, info),
         fullPalette |-> ActivePalette(st.fullPalette, frame.pal),
         spriteImg |-> [canvas EXCEPT
                          !.ink = @ \cup DrawOver(canvas, bbox, img, trim.min)]]

\* image.Paletted.SubImage, line 133: the bounds of the sub-image.
SubImageBounds(img, r) ==
    LET i == Rect(SetMax({r.min.x, img.rect.min.x}), SetMax({r.min.y, img.rect.min.y}),
                  SetMin({r.max.x, img.rect.max.x}), SetMin({r.max.y, img.rect.max.y}))
    IN  IF Empty(r) \/ Empty(i) THEN Rect(0, 0, 0, 0) ELSE i

Frames == Flatten(anims)

\* The SpriteSets explored: up to MaxFrames frames, in no animation or cut
\* anywhere into two animations (either may be empty).
SpriteSets ==
    {<<>>} \cup
    UNION {{<<SubSeq(fs, 1, c), SubSeq(fs, c + 1, Len(fs))>> : c \in 0..Len(fs)} :
              fs \in SeqsUpTo(FrameKinds, MaxFrames)}

PackInit ==
    /\ anims \in SpriteSets
    /\ fi = 1
    /\ pk = PackStart
    /\ created = FALSE /\ piped = FALSE /\ jres = "none"
    /\ jpc = "compose"
    /\ PoolIdle /\ RwIdle /\ BbIdle

\* One pass of the loop body, lines 102-130.
ComposeFrame ==
    /\ jpc = "compose"
    /\ fi <= Len(Frames)
    /\ pk' = PackStep(pk, Frames[fi])
    /\ fi' = fi + 1
    /\ UNCHANGED <<anims, poolVars, rwVars, bbVars>>

\* Lines 133-148 when FindBbox(spriteImg) looks at a canvas without palette.
CropPanic ==
    /\ jpc = "compose"
    /\ fi > Len(Frames)
    /\ AtPanics(pk.spriteImg)
    /\ jpc' = "ret" /\ jres' = "panic"
    /\ UNCHANGED <<created, piped, inp, rpos, cur, rerr, out, encres, epc>>
    /\ UNCHANGED <<packVars, poolVars, bbVars>>

\* Lines 133-136: an empty crop is skipped, processOne returns nil.
CropSkip ==
    /\ jpc = "compose"
    /\ fi > Len(Frames)
    /\ ~AtPanics(pk.spriteImg)
    /\ LET b == SubImageBounds(pk.spriteImg, FindBbox(pk.spriteImg))
       IN  Dx(b) = 0 \/ Dy(b) = 0
    /\ jpc' = "ret" /\ jres' = "ok"
    /\ UNCHANGED <<created, piped, inp, rpos, cur, rerr, out, encres, epc>>
    /\ UNCHANGED <<packVars, poolVars, bbVars>>

\* Lines 133-148: the crop has pixels; the pipe is opened and the encoder
\* goroutine started.
CropEncode ==
    /\ jpc = "compose"
    /\ fi > Len(Frames)
    /\ ~AtPanics(pk.spriteImg)
    /\ LET b == SubImageBounds(pk.spriteImg, FindBbox(pk.spriteImg))
       IN  Dx(b) # 0 /\ Dy(b) # 0
    /\ piped' = TRUE
    /\ epc' = "start"
    /\ jpc' = "create"
    /\ UNCHANGED <<created, jres, inp, rpos, cur, rerr, out, encres>>
    /\ UNCHANGED <<packVars, poolVars, bbVars>>

PackNext == ComposeFrame \/ CropPanic \/ CropSkip \/ CropEncode

PackSpec == PackInit /\ [][PackNext]_vars


\* ----------------------------------------------------- claims, composition

\* C9: no two placement rectangles recorded by the packer overlap, and each
\* has the width and height of its frame's trimmed bounding box.
C9_NoOverlap ==
    /\ \A i, j \in 1..Len(pk.infos) :
          i < j => ~Overlaps(pk.infos[i].BBox, pk.infos[j].BBox)
    /\ \A i \in 1..Len(pk.infos) :
          LET trim == FindBbox(MakeImage(Frames[i]))
          IN  /\ Dx(pk.infos[i].BBox) = Dx(trim)
              /\ Dy(pk.infos[i].BBox) = Dy(trim)

\* C10: once a SpriteSet is composed onto a canvas without any opaque pixel,
\* processOne has returned nil, with no destination file and no pipe.
C10_EmptyCanvasSkipped ==
    (jpc # "compose" /\ pk.spriteImg.ink = {})
        => (jpc = "ret" /\ jres = "ok" /\ ~created /\ ~piped)


\* The step that composes the next frame, and what it is about.
Composing == jpc = "compose" /\ fi <= Len(Frames) /\ fi' = fi + 1
TrimOfNext == FindBbox(MakeImage(Frames[fi]))
WrapsNext == pk.left + Dx(TrimOfNext) > CanvasW
Placed == pk'.infos[Len(pk'.infos)].BBox
\* The row just below the lowest opaque pixel of the canvas (0 without any).
InkBottom == IF pk.spriteImg.ink = {} THEN 0
             ELSE SetMax({p.y : p \in pk.spriteImg.ink}) + 1

\* C16: the first frame, when it fits the canvas width, is placed at (0,0);
\* a frame placed without a wrap has the top of the frame before it and its
\* left edge is that frame's right edge plus one.
C16_LeftToRightWithGap ==
    [][Composing =>
          /\ (fi = 1 /\ Dx(TrimOfNext) <= CanvasW) => Placed.min = Pt(0, 0)
          /\ (fi > 1 /\ ~WrapsNext) =>
                /\ Placed.min.y = pk.infos[fi - 1].BBox.min.y
                /\ Placed.min.x = pk.infos[fi - 1].BBox.max.x + 1]_vars

\* Two frames of one opaque pixel each got [0,0)-[1,1) and [2,0)-[3,1).
C16_Witness ==
    /\ Len(pk.infos) = 2
    /\ pk.infos[1].BBox = Rect(0, 0, 1, 1)
    /\ pk.infos[2].BBox = Rect(2, 0, 3, 1)

\* C17 as claimed: a frame wraps exactly when left plus its trimmed width
\* exceeds the canvas width, and a wrapped frame is placed at left 0 with its
\* top on the row just below the canvas's lowest opaque pixel (Max.Y of the
\* canvas's ink box).
C17_WrapTopIsInkBottom ==
    [][Composing =>
          /\ WrapsNext => Placed.min = Pt(0, InkBottom)
          /\ ~WrapsNext => Placed.min = Pt(pk.left, pk.top)]_vars

\* C17 as amended: the top of a wrapped frame is one row further down, Max.Y
\* of the canvas's ink box plus one, so that one row stays empty.
C17_WrapTopIsInkBottomPlusOne ==
    [][Composing =>
          /\ WrapsNext => Placed.min = Pt(0, InkBottom + 1)
          /\ ~WrapsNext => Placed.min = Pt(pk.left, pk.top)]_vars

\* After a 590x280 frame at (0,0) a second one wrapped to (0,281).
C17_Witness ==
    /\ Len(pk.infos) >= 2
    /\ pk.infos[1].BBox = Rect(0, 0, 590, 280)
    /\ pk.infos[2].BBox = Rect(0, 281, 590, 561)

\* C19: the cursor starts at (0,0); from one frame's position to the next
\* the top never decreases and the left strictly increases, except at a wrap,
\* where the left is 0; and a wrap never gives a position that an earlier
\* frame with non-zero area already has.
C19_CursorMonotonic ==
    /\ (jpc = "compose" /\ fi = 1) => (pk.left = 0 /\ pk.top = 0)
    /\ \A k \in 2..Len(pk.infos) :
          LET prev == pk.infos[k - 1].BBox
              this == pk.infos[k].BBox
              wrapped == prev.max.x + 1 + Dx(this) > CanvasW
          IN  /\ this.min.y >= prev.min.y
              /\ ~wrapped => this.min.x > prev.min.x
              /\ wrapped =>
                    /\ this.min.x = 0
                    /\ \A j \in 1..(k - 1) :
                          ~Empty(pk.infos[j].BBox) =>
                              pk.infos[j].BBox.min # this.min

\* =========================================================================
\* processOne, rewriting: file, chunk reader and writer, chunk loop, wait
\* (lines 150-230)
\* =========================================================================

\* The whole of the loops of lines 102-131 on a SpriteSet.
RECURSIVE ComposeFrom(_, _)
ComposeFrom(st, fs) ==
    IF fs = <<>> THEN st ELSE ComposeFrom(PackStep(st, Head(fs)), Tail(fs))
Compose(as) == ComposeFrom(PackStart, Flatten(as))

\* The SpriteSets whose jobs are followed through the rewriter (each has
\* opaque pixels, so that its job gets there).
RewrittenSets ==
    { << <<FrameDot>> >>, << <<FrameDot, FrameDot>> >>, << <<FrameDot>>, <<FrameBig>> >>,
      << <<FrameClear, FrameDot>>, <<FrameTall>> >> }

\* int16(v) written little-endian, uint8(v) (lines 205-212).
LE16(v) == LET u == v % 65536 IN <<u % 256, u \div 256>>
U8(v) == v % 256

RECURSIVE PaletteBytes(_)
PaletteBytes(pal) ==
    IF pal = <<>> THEN <<>>
    ELSE LET c == Head(pal)
         IN  <<c[1], c[2], c[3], c[4], 255, 255>> \o PaletteBytes(Tail(pal))

\* Lines 181-193: "full", 0x00, 0x08, then six bytes per palette entry.
SPLTPayload(pal) == <<102, 117, 108, 108, 0, 8>> \o PaletteBytes(pal)

InfoBytesNoFlags(info) ==
    LE16(info.BBox.min.x) \o LE16(info.BBox.min.y) \o
    LE16(info.BBox.max.x) \o LE16(info.BBox.max.y) \o
    LE16(info.Origin.x) \o LE16(info.Origin.y)
InfoBytes(info) ==
    LE16(info.BBox.min.x) \o LE16(info.BBox.min.y) \o
    LE16(info.BBox.max.x) \o LE16(info.BBox.max.y) \o
    LE16(info.Origin.x) \o LE16(info.Origin.y) \o
    <<U8(info.Delay), U8(info.Action)>>

RECURSIVE InfosBytes(_)
InfosBytes(infos) ==
    IF infos = <<>> THEN <<>> ELSE InfoBytes(Head(infos)) \o InfosBytes(Tail(infos))

\* Lines 200-213: "fsctrl", 0x00, 0xff, then one record per FrameInfo.
ZTXTPayload(infos) == <<102, 115, 99, 116, 114, 108, 0, 255>> \o InfosBytes(infos)

\* What NextChunk can yield: a chunk, or a failure other than io.EOF.
ChunkTypes == {"PLTE", "tRNS", "IDAT"}
ChunkData  == {<<>>, <<7, 9>>}
BadItem    == [ok |-> FALSE, type |-> "", data |-> <<>>]
StreamItems ==
    {[ok |-> TRUE, type |-> t, data |-> d] : t \in ChunkTypes, d \in ChunkData}
        \cup {BadItem}

\* The chunk value NextChunk hands back: nil, or a chunk with type and payload.
NilChunk == [nil |-> TRUE, type |-> "", data |-> <<>>]
ZeroChunk == [nil |-> FALSE, type |-> "", data |-> <<>>]
ChunkOf(item) == [nil |-> FALSE, type |-> item.type, data |-> item.data]

\* pngw.WriteChunk(length, type, reader): one more chunk in the file, holding
\* the first length bytes the reader gives.
WriteChunk(file, length, type, data, from) ==
    Append(file, [type |-> type, length |-> length,
                  data |-> SubSeq(data, 1, length), from |-> from])

\* Line 174: the arguments chunk.Length(), chunk.Type(), chunk.
PassThroughEmpty(file, c) == WriteChunk(file, 0, c.type, c.data, "input")
PassThrough(file, c) == WriteChunk(file, Len(c.data), c.type, c.data, "input")

\* Line 178: the chunk after which the metadata is packed in.
InjectAfterIDAT(type) == type = "IDAT"
InjectAfter(type) == type = "tRNS"

\* processOne's error results.
JobErrors == {"create", "reader", "writer", "write", "close", "encode"}

RewriteInit ==
    /\ anims \in RewrittenSets
    /\ fi = Len(Flatten(anims)) + 1
    /\ pk = Compose(anims)
    /\ inp \in SeqsUpTo(StreamItems, MaxChunks)
    /\ encres \in {"ok", "err"}
    /\ rpos = 0 /\ cur = NilChunk /\ rerr = "nil" /\ out = <<>>
    /\ created = FALSE /\ piped = TRUE
    /\ jpc = "create" /\ jres = "none"
    /\ epc = "start"
    /\ PoolIdle /\ BbIdle

Return(res) == jpc' = "ret" /\ jres' = res

\* Lines 150-154.
JobCreate ==
    /\ jpc = "create"
    /\ \/ created' = TRUE /\ jpc' = "reader" /\ UNCHANGED jres
       \/ Return("create") /\ UNCHANGED created
    /\ UNCHANGED <<inp, rpos, cur, rerr, out, encres, epc, piped, packVars, poolVars, bbVars>>

\* Lines 156-159: NewReader takes the PNG signature from the pipe, which the
\* encoder's first write hands over; it fails when the pipe was closed before.
JobNewReader ==
    /\ jpc = "reader"
    /\ \/ epc = "start" /\ epc' = "stream" /\ jpc' = "writer" /\ UNCHANGED jres
       \/ epc = "done" /\ Return("reader") /\ UNCHANGED epc
    /\ UNCHANGED <<inp, rpos, cur, rerr, out, encres, created, piped, packVars, poolVars, bbVars>>

\* Lines 161-164.
JobNewWriter ==
    /\ jpc = "writer"
    /\ \/ jpc' = "next" /\ UNCHANGED jres
       \/ Return("writer")
    /\ UNCHANGED <<inp, rpos, cur, rerr, out, encres, epc, created, piped, packVars, poolVars, bbVars>>

\* Lines 167-172, end of stream: the write end is closed, io.EOF breaks out
\* of the loop.
JobNextEOF ==
    /\ jpc = "next"
    /\ rpos = Len(inp)
    /\ epc = "done"
    /\ rerr' = "eof"
    /\ cur' = NilChunk
    /\ jpc' = "wait"
    /\ UNCHANGED <<inp, rpos, out, encres, epc, created, piped, jres, packVars, poolVars, bbVars>>

\* Lines 167-172, a chunk: err is nil.
JobNextChunk ==
    /\ jpc = "next"
    /\ epc = "stream"
    /\ rpos < Len(inp)
    /\ inp[rpos + 1].ok
    /\ rerr' = "nil"
    /\ cur' = ChunkOf(inp[rpos + 1])
    /\ rpos' = rpos + 1
    /\ jpc' = "write"
    /\ UNCHANGED <<inp, out, encres, epc, created, piped, jres, packVars, poolVars, bbVars>>

\* Lines 167-172, an error that is not io.EOF: neither branch is taken and
\* control falls through to line 174 with whatever chunk came back, nil or
\* not.
JobNextBad ==
    /\ jpc = "next"
    /\ epc = "stream"
    /\ rpos < Len(inp)
    /\ ~inp[rpos + 1].ok
    /\ rerr' = "bad"
    /\ cur' \in {NilChunk, ZeroChunk}
    /\ rpos' = rpos + 1
    /\ jpc' = "write"
    /\ UNCHANGED <<inp, out, encres, epc, created, piped, jres, packVars, poolVars, bbVars>>

\* Lines 174-176 on a nil chunk: chunk.Length() dereferences nil.
JobWritePanic ==
    /\ jpc = "write"
    /\ cur.nil
    /\ Return("panic")
    /\ UNCHANGED <<inp, rpos, cur, rerr, out, encres, epc, created, piped, packVars, poolVars, bbVars>>

\* Lines 174-178: the chunk is written as read, or the write fails.
JobWriteChunk ==
    /\ jpc = "write"
    /\ ~cur.nil
    /\ \/ /\ out' = PassThrough(out, cur)
          /\ jpc' = IF InjectAfter(cur.type) THEN "splt" ELSE "close"
          /\ UNCHANGED jres
       \/ Return("write") /\ UNCHANGED out
    /\ UNCHANGED <<inp, rpos, cur, rerr, encres, epc, created, piped, packVars, poolVars, bbVars>>

\* Lines 180-197: the palette dump.
JobWritePalette ==
    /\ jpc = "splt"
    /\ \/ /\ out' = LET b == SPLTPayload(pk.fullPalette)
                    IN  WriteChunk(out, Len(b), "sPLT", b, "synth")
          /\ jpc' = "ztxt"
          /\ UNCHANGED jres
       \/ Return("write") /\ UNCHANGED out
    /\ UNCHANGED <<inp, rpos, cur, rerr, encres, epc, created, piped, packVars, poolVars, bbVars>>

\* Lines 199-218: the control table.
JobWriteControl ==
    /\ jpc = "ztxt"
    /\ \/ /\ out' = LET b == ZTXTPayload(pk.infos)
                    IN  WriteChunk(out, Len(b), "zTXt", b, "synth")
          /\ jpc' = "close"
          /\ UNCHANGED jres
       \/ Return("write") /\ UNCHANGED out
    /\ UNCHANGED <<inp, rpos, cur, rerr, encres, epc, created, piped, packVars, poolVars, bbVars>>

\* Lines 221-223.
JobCloseChunk ==
    /\ jpc = "close"
    /\ \/ jpc' = "next" /\ UNCHANGED jres
       \/ Return("close")
    /\ UNCHANGED <<inp, rpos, cur, rerr, out, encres, epc, created, piped, packVars, poolVars, bbVars>>

\* Lines 226-230: once the encoder goroutine has returned, its result is the
\* job's.
JobWait ==
    /\ jpc = "wait"
    /\ epc = "done"
    /\ Return(IF encres = "err" THEN "encode" ELSE "ok")
    /\ UNCHANGED <<inp, rpos, cur, rerr, out, encres, epc, created, piped, packVars, poolVars, bbVars>>

\* Lines 142-148, the encoder goroutine: every write to the pipe waits until
\* the rewriter has read it, so png.Encode returns, and the deferred w.Close()
\* runs, only when all it writes has been read: the whole stream, or nothing at
\* all when it fails before its first write.
EncoderClose ==
    /\ \/ epc = "start" /\ encres = "err" /\ inp = <<>>
       \/ epc = "stream" /\ rpos = Len(inp)
    /\ epc' = "done"
    /\ UNCHANGED <<inp, rpos, cur, rerr, out, encres, created, piped, jpc, jres,
                   packVars, poolVars, bbVars>>

RewriteNext ==
    \/ EncoderClose
    \/ JobCreate
    \/ JobNewReader
    \/ JobNewWriter
    \/ JobNextEOF
    \/ JobNextChunk
    \/ JobNextBad
    \/ JobWritePanic
    \/ JobWriteChunk
    \/ JobWritePalette
    \/ JobWriteControl
    \/ JobCloseChunk
    \/ JobWait

RewriteSpec == RewriteInit /\ [][RewriteNext]_vars


\* -------------------------------------------------------- claims, rewriting

IsInput(c) == c.from = "input"
IsSynth(c, type) == c.from = "synth" /\ c.type = type
\* The output with the injected chunks removed.
PassedThrough == SelectSeq(out, IsInput)
\* The stream has no malformed chunk: it ends with a normal end-of-stream.
EndsNormally == \A i \in 1..Len(inp) : inp[i].ok
SameChunk(w, item) ==
    w.type = item.type /\ w.length = Len(item.data) /\ w.data = item.data
CountSynth(type) == Cardinality({i \in 1..Len(out) : IsSynth(out[i], type)})

\* C5: on a stream without malformed chunk, the output without the injected
\* chunks is at all times the sequence of the chunks read so far, each with
\* its type, length and payload, in order; once end-of-stream is read it is
\* the whole input sequence.
C5_Passthrough ==
    EndsNormally =>
        /\ Len(PassedThrough) <= Len(inp)
        /\ Len(PassedThrough) \in {rpos, rpos - 1}
        /\ \A i \in 1..Len(PassedThrough) : SameChunk(PassedThrough[i], inp[i])
        /\ rerr = "eof" => Len(PassedThrough) = Len(inp)

\* A job on a stream of several chunks, tRNS among them, returned nil with
\* more chunks in the file than were read.
C5_Witness ==
    /\ EndsNormally /\ jpc = "ret" /\ jres = "ok"
    /\ Len(inp) >= 2
    /\ \E i \in 1..Len(inp) : inp[i].type = "tRNS" /\ inp[i].data # <<>>
    /\ Len(out) > Len(inp)

\* C6: injected chunks are an sPLT directly after a tRNS that was passed
\* through and a zTXt directly after that sPLT, and nothing else; whatever is
\* written after a passed tRNS is the sPLT, after the sPLT the zTXt; and the
\* pair is complete whenever the job is about to read the next chunk or has
\* returned nil.
C6_InjectedPairAfterTRNS ==
    /\ \A i \in 1..Len(out) :
          /\ out[i].from = "synth" => out[i].type \in {"sPLT", "zTXt"}
          /\ IsSynth(out[i], "sPLT") =>
                i > 1 /\ IsInput(out[i - 1]) /\ out[i - 1].type = "tRNS"
          /\ IsSynth(out[i], "zTXt") => i > 1 /\ IsSynth(out[i - 1], "sPLT")
          /\ (IsInput(out[i]) /\ out[i].type = "tRNS" /\ i < Len(out)) =>
                IsSynth(out[i + 1], "sPLT")
          /\ (IsSynth(out[i], "sPLT") /\ i < Len(out)) => IsSynth(out[i + 1], "zTXt")
    /\ (jpc \in {"next", "wait"} \/ jres = "ok") =>
          (out # <<>> =>
              /\ ~(IsInput(out[Len(out)]) /\ out[Len(out)].type = "tRNS")
              /\ ~IsSynth(out[Len(out)], "sPLT"))

\* A tRNS was passed through, the pair written after it and a further input
\* chunk after the pair.
C6_Witness ==
    \E i \in 1..Len(out) :
        /\ i + 3 <= Len(out)
        /\ IsInput(out[i]) /\ out[i].type = "tRNS"
        /\ IsSynth(out[i + 1], "sPLT") /\ IsSynth(out[i + 2], "zTXt")
        /\ IsInput(out[i + 3])

\* C7: the file of a job that returned nil on a well-formed, non-empty chunk
\* stream holds the palette dump and the control table exactly once each.
C7_MetadataExactlyOnce ==
    (jpc = "ret" /\ jres = "ok" /\ EndsNormally /\ inp # <<>>) =>
        (CountSynth("sPLT") = 1 /\ CountSynth("zTXt") = 1)

\* C8: once NextChunk has failed with an error other than end-of-stream, the
\* job has returned an error, and the file holds no chunk beyond those read
\* before the failure.
C8_MalformedChunkAborts ==
    rerr = "bad" =>
        /\ jpc = "ret" /\ jres \in JobErrors
        /\ Len(PassedThrough) <= rpos - 1


\* The metadata chunks of the output file.
Synth(type) == {i \in 1..Len(out) : out[i].from = "synth" /\ out[i].type = type}

\* A reader of the control table: two bytes, little-endian, as a signed
\* integer; the record that starts after off bytes; all the records after the
\* 8-byte header.
S16(lo, hi) == LET u == lo + 256 * hi IN IF u >= 32768 THEN u - 65536 ELSE u
DecodeRecord(b, off) ==
    [BBox |-> Rect(S16(b[off + 1], b[off + 2]), S16(b[off + 3], b[off + 4]),
                   S16(b[off + 5], b[off + 6]), S16(b[off + 7], b[off + 8])),
     Origin |-> Pt(S16(b[off + 9], b[off + 10]), S16(b[off + 11], b[off + 12])),
     Delay |-> b[off + 13],
     Action |-> b[off + 14]]
DecodeControl(b) ==
    [k \in 1..((Len(b) - 8) \div 14) |-> DecodeRecord(b, 8 + 14 * (k - 1))]

\* C11: the control table holds one record per frame of the SpriteSet, in
\* order, and decoding the records gives back exactly the FrameInfo values
\* computed during composition, whatever those values are.
C11_ControlTableRoundTrip ==
    \A i \in Synth("zTXt") :
        /\ Len(out[i].data) = 8 + 14 * Len(Frames)
        /\ DecodeControl(out[i].data) = pk.infos

\* One animation of two frames with exactly one opaque pixel each.
TwoSinglePixelFrames ==
    /\ Len(anims) = 1
    /\ Len(Frames) = 2
    /\ \A k \in 1..2 : Cardinality(Frames[k].ink) = 1

\* C13 as claimed: for one animation of two single-pixel frames the control
\* table has 26 bytes after its 8-byte header.
C13_ControlTable26Bytes ==
    TwoSinglePixelFrames =>
        \A i \in Synth("zTXt") : Len(out[i].data) - 8 = 26

\* C13 as amended: it has 2 * 14 = 28 bytes after the header, 36 in all, and
\* the chunk's length field says so.
C13_ControlTable28Bytes ==
    TwoSinglePixelFrames =>
        \A i \in Synth("zTXt") :
            /\ Len(out[i].data) - 8 = 28
            /\ out[i].length = 36

\* The control table of two single-pixel frames has been written.
C13_Witness == TwoSinglePixelFrames /\ Synth("zTXt") # {}

\* C18: the palette dump is "full", 0x00, 0x08 and then, for each entry of
\* the last composed frame's palette in order, red, green, blue, alpha, 0xFF,
\* 0xFF; it is 6 + 6n bytes long.
C18_PaletteOfLastFrame ==
    \A i \in Synth("sPLT") :
        LET b   == out[i].data
            pal == Frames[Len(Frames)].pal
        IN  /\ Len(b) = 6 + 6 * Len(pal)
            /\ out[i].length = Len(b)
            /\ SubSeq(b, 1, 6) = <<102, 117, 108, 108, 0, 8>>
            /\ \A n \in 1..Len(pal) :
                  SubSeq(b, 6 * n + 1, 6 * n + 6) =
                      <<pal[n][1], pal[n][2], pal[n][3], pal[n][4], 255, 255>>

\* A palette dump has been written for a set whose first and last frames have
\* different palettes.
C18_Witness ==
    /\ Synth("sPLT") # {}
    /\ Frames[1].pal # Frames[Len(Frames)].pal

\* The job has returned to its caller (a panic does not return).
Returned == jpc = "ret" /\ jres # "panic"

\* C14: whenever processOne has returned, the encoder sub-task has terminated
\* or can still run to its end (nothing reads the pipe after the return, so an
\* encoder that cannot step then never will); and a job that has not returned
\* is never stuck.
C14_EncoderTerminates ==
    /\ Returned => (epc = "done" \/ ENABLED EncoderClose)
    /\ jpc # "ret" => ENABLED RewriteNext

\* C15: when the encoder fails after it has begun to write, and the
\* destination file gives no error of its own, the pipe's write end is closed
\* before the job ends and the job's result is the encoder's error.
C15_EncoderErrorReturned ==
    (/\ encres = "err"
     /\ jpc = "ret"
     /\ jres \notin {"create", "reader", "writer", "write", "close"})
        => (epc = "done" /\ jres = "encode")

\* =========================================================================
\* FindBbox on its own (lines 24-85)
\* =========================================================================

\* The rasters explored: bounds of 0..MaxSide by 0..MaxSide pixels with the
\* upper left corner at (0,0) or (1,2), any of the pixels opaque.
SmallRasters ==
    UNION {{[rect |-> Rect(o[1], o[2], o[1] + w, o[2] + h), ink |-> k, pal |-> PalA] :
              k \in SUBSET {Pt(x, y) : x \in o[1]..(o[1] + w - 1),
                                        y \in o[2]..(o[2] + h - 1)}} :
              o \in {<<0, 0>>, <<1, 2>>}, w \in 0..MaxSide, h \in 0..MaxSide}

BboxInit ==
    /\ bimg \in SmallRasters
    /\ bres = <<>>
    /\ bpc = "find"
    /\ PoolIdle /\ PackIdle /\ RwIdle /\ JobIdle

\* One call of FindBbox.
BboxFind ==
    /\ bpc = "find"
    /\ bres' = FindBbox(bimg)
    /\ bpc' = "done"
    /\ UNCHANGED <<bimg, poolVars, packVars, rwVars>>

BboxNext == BboxFind

BboxSpec == BboxInit /\ [][BboxNext]_vars

\* The pixels of the raster with alpha not zero.
OpaquePixels == {p \in bimg.ink : In(p, bimg.rect)}

\* C12: for a raster with an opaque pixel FindBbox returns the smallest
\* rectangle holding all of them: all lie in it and each of its four sides
\* touches one; for a raster without any (zero width or height included) it
\* returns a rectangle of zero width and zero height.
C12_SmallestRectangle ==
    bpc = "done" =>
        IF OpaquePixels # {}
        THEN /\ \A p \in OpaquePixels : In(p, bres)
             /\ \E p \in OpaquePixels : p.x = bres.min.x
             /\ \E p \in OpaquePixels : p.y = bres.min.y
             /\ \E p \in OpaquePixels : p.x = bres.max.x - 1
             /\ \E p \in OpaquePixels : p.y = bres.max.y - 1
        ELSE Dx(bres) = 0 /\ Dy(bres) = 0

\* The single opaque pixel (2,3) of a 2x2 raster gave [2,3)-[3,4).
C12_Witness ==
    /\ bpc = "done"
    /\ bimg.rect = Rect(1, 2, 3, 4)
    /\ OpaquePixels = {Pt(2, 3)}
    /\ bres = Rect(2, 3, 3, 4)

====
